---- MODULE Spec2Model ----
(***************************************************************************)
(* The update engine of google_workspace.gmail.GmailClient: the handler    *)
(* registry (add_handler), the poll loop (run / get_updates /              *)
(* _handle_stop / quit), the paginated history iterator                    *)
(* (ListHistoryResponse) and the dispatch workers (update_worker /         *)
(* utils.handle_update / BaseHandler.check), next to a small model of the  *)
(* remote mailbox history the client polls.                                *)
(***************************************************************************)
EXTENDS Integers, Sequences, FiniteSets, TLC

\* ------------------------------------------------------------------ bounds
NumWorkers == 2      \* the largest GmailClient(workers=...) a caller passes
MaxOffline == 3      \* changes in the mailbox's history before run() is called
MaxLog == 2          \* the mailbox changes on while its history is shorter
MaxHandlers == 2     \* add_handler calls before run()
PageSize == 1        \* history entries the remote returns per page
Base == 10           \* the mailbox's historyId when the client is constructed

None == -1           \* Python's None where an integer is expected

HistoryTypes == {"messageAdded", "messageDeleted", "labelAdded", "labelRemoved"}
TypeOrder == <<"messageAdded", "messageDeleted", "labelAdded", "labelRemoved">>

\* An optional list (Python: None or a list).
NoneList == [isNone |-> TRUE, list |-> <<>>]
Some(l) == [isNone |-> FALSE, list |-> l]
Truthy(ol) == ~ol.isNone /\ ol.list # <<>>
Range(s) == {s[i] : i \in 1..Len(s)}

\* ---------------------------------------------------------------- handlers
\* BaseHandler.__init__: labels / modified_labels / filters are None or lists,
\* history_types defaults to all four types.
Handler(types, labels, modified, filters) ==
    [history_types |-> types, labels |-> labels,
     modified_labels |-> modified, filters |-> filters]

\* The handlers a caller registers in this model: on_message's default
\* MessageAddedHandler(labels="inbox") and a BaseHandler with no arguments.
HandlerMenu ==
    { Handler(<<"messageAdded">>, Some(<<"INBOX">>), NoneList, NoneList),
      Handler(TypeOrder, NoneList, NoneList, NoneList) }

\* A wider choice of handlers: two that ask for the same single label, one
\* that asks for another, one that asks for two, one that asks for none, one
\* with an empty list, some with filters.
WideHandlerMenu ==
    { Handler(<<"messageAdded">>, Some(<<"INBOX">>), NoneList, NoneList),
      Handler(<<"messageAdded">>, Some(<<"SPAM">>), NoneList, NoneList),
      Handler(<<"messageAdded", "labelAdded">>, Some(<<"INBOX">>), NoneList,
              Some(<<"is_unread", "is_starred">>)),
      Handler(<<"messageAdded">>, Some(<<"INBOX", "UNREAD">>), NoneList,
              Some(<<"is_unread">>)),
      Handler(TypeOrder, NoneList, NoneList, Some(<<"is_starred", "is_unread">>)),
      Handler(<<"messageAdded">>, Some(<<>>), NoneList, NoneList) }

\* Handlers that differ in kind: on_message's default, one that asks for a
\* modified label on both label types and for no label, one registered for
\* two types with a label of its own.
MixedHandlerMenu ==
    { Handler(<<"messageAdded">>, Some(<<"INBOX">>), NoneList, NoneList),
      Handler(<<"labelAdded", "labelRemoved">>, NoneList, Some(<<"STARRED">>),
              NoneList),
      Handler(<<"messageAdded", "labelAdded">>, Some(<<"SPAM">>), NoneList,
              NoneList) }

\* A filter is a deterministic predicate over the History; by name.
FilterHolds(f, history) ==
    CASE f = "is_unread" -> "UNREAD" \in history.label_ids
      [] f = "is_starred" -> "STARRED" \in history.label_ids
      [] OTHER -> TRUE

RECURSIVE AllFilters(_, _)
AllFilters(fs, history) ==
    IF fs = <<>> THEN TRUE
    ELSE IF ~FilterHolds(Head(fs), history) THEN FALSE
    ELSE AllFilters(Tail(fs), history)

\* The tests of one pass over `for filter in self.filters`, each with its
\* outcome, up to and including the first one that fails.
RECURSIVE FilterTrace(_, _)
FilterTrace(fs, history) ==
    IF fs = <<>> THEN <<>>
    ELSE <<[test |-> Head(fs), ok |-> FilterHolds(Head(fs), history)]>>
         \o (IF FilterHolds(Head(fs), history)
             THEN FilterTrace(Tail(fs), history) ELSE <<>>)

\* BaseHandler.check, as the sequence of the tests it evaluates before it
\* returns, each with its outcome.
CheckTrace(handler, history) ==
    LET lab == IF handler.labels.isNone THEN <<>>
               ELSE <<[test |-> "labels",
                       ok |-> \A l \in Range(handler.labels.list) :
                                  l \in history.label_ids]>>
        mod == IF handler.modified_labels.isNone \/ history.modified_labels = {}
               THEN <<>>
               ELSE <<[test |-> "modified_labels",
                       ok |-> \A l \in Range(handler.modified_labels.list) :
                                  l \in history.modified_labels]>>
    IN IF lab # <<>> /\ ~lab[1].ok THEN lab
       ELSE IF mod # <<>> /\ ~mod[1].ok THEN lab \o mod
       ELSE lab \o mod \o (IF handler.filters.isNone THEN <<>>
                           ELSE FilterTrace(handler.filters.list, history))

\* A check without the test of self.labels.
CheckNoLabelTest(handler, history) ==
    IF ~handler.modified_labels.isNone
       /\ history.modified_labels # {}
       /\ ~(\A l \in Range(handler.modified_labels.list) :
                l \in history.modified_labels)
    THEN FALSE
    ELSE IF ~handler.filters.isNone
    THEN AllFilters(handler.filters.list, history)
    ELSE TRUE

\* BaseHandler.check
Check(handler, history) ==
    IF ~handler.labels.isNone
       /\ ~(\A l \in Range(handler.labels.list) : l \in history.label_ids)
    THEN FALSE
    ELSE IF ~handler.modified_labels.isNone
            /\ history.modified_labels # {}
            /\ ~(\A l \in Range(handler.modified_labels.list) :
                     l \in history.modified_labels)
    THEN FALSE
    ELSE IF ~handler.filters.isNone
    THEN AllFilters(handler.filters.list, history)
    ELSE TRUE

RECURSIVE AppendMissing(_, _)
AppendMissing(labels, config) ==
    IF labels = <<>> THEN config
    ELSE AppendMissing(Tail(labels),
                       IF Head(labels) \in Range(config) THEN config
                       ELSE Append(config, Head(labels)))

\* utils.add_labels_to_handler_config
add_labels_to_handler_config(labels, config) ==
    IF Truthy(labels)
    THEN IF ~config.isNone THEN Some(AppendMissing(labels.list, config.list))
         ELSE config
    ELSE NoneList

\* ------------------------------------------------------------ remote mailbox
\* A message as the history API reports it inside a change: the message's
\* id and labelIds, and the change's own labelIds (`modified`).
MsgWithId(id, labels, modified) ==
    [id |-> id, labelIds |-> labels, modified |-> modified]
Msg(labels, modified) == MsgWithId("m1", labels, modified)

\* A raw history entry: its id, its message list, and `keys`, the change
\* lists it carries beside them.
Entry(keys, ch) == [keys |-> keys, ch |-> ch, messages |-> TRUE]
\* A raw entry that came without the `messages` field.
EntryWithoutMessages(keys, ch) == [keys |-> keys, ch |-> ch, messages |-> FALSE]
NoChanges == [t \in HistoryTypes |-> <<>>]

\* len(history): the number of fields of the raw entry
Fields(entry) ==
    1 + (IF entry.messages THEN 1 ELSE 0) + Cardinality(entry.keys)

EntryMenu ==
    { Entry({"messagesAdded"},
            [NoChanges EXCEPT !["messageAdded"] = <<Msg({"INBOX"}, {})>>]),
      Entry({"labelsAdded"},
            [NoChanges EXCEPT !["labelAdded"] = <<Msg({"SPAM"}, {"SPAM"})>>])
            }

WideEntryMenu ==
    { Entry({"messagesAdded"},
            [NoChanges EXCEPT !["messageAdded"] = <<Msg({"INBOX"}, {})>>]),
      Entry({"messagesAdded"},
            [NoChanges EXCEPT !["messageAdded"] = <<Msg({"SPAM"}, {})>>]),
      Entry({"messagesAdded"},
            [NoChanges EXCEPT !["messageAdded"] =
                 <<Msg({"INBOX", "UNREAD", "STARRED"}, {})>>]),
      Entry({"labelsAdded"},
            [NoChanges EXCEPT !["labelAdded"] =
                 <<Msg({"INBOX", "UNREAD"}, {"UNREAD"})>>]) }

\* Entries that differ in shape: one with nothing but id and messages, one
\* with two change lists on one message, a labelsAdded change that names no
\* label, a message with a label no handler asks for, one with the two other
\* change lists, and one that came without `messages`.
MixedEntryMenu ==
    { Entry({}, NoChanges),
      Entry({"messagesAdded", "labelsAdded"},
            [NoChanges EXCEPT
                !["messageAdded"] = <<MsgWithId("m1", {"INBOX"}, {})>>,
                !["labelAdded"] =
                    <<MsgWithId("m1", {"INBOX", "STARRED"}, {"STARRED"})>>]),
      Entry({"labelsAdded"},
            [NoChanges EXCEPT !["labelAdded"] = <<MsgWithId("m2", {"INBOX"}, {})>>]),
      Entry({"messagesAdded"},
            [NoChanges EXCEPT !["messageAdded"] = <<MsgWithId("m3", {"TRASH"}, {})>>]),
      Entry({"messagesDeleted", "labelsRemoved"},
            [NoChanges EXCEPT
                !["messageDeleted"] = <<MsgWithId("m4", {}, {})>>,
                !["labelRemoved"] = <<MsgWithId("m5", {"INBOX"}, {"UNREAD"})>>]),
      EntryWithoutMessages({"messagesAdded"},
            [NoChanges EXCEPT !["messageAdded"] = <<MsgWithId("m6", {"INBOX"}, {})>>]) }

\* History.__init__; hid and k identify the record in the properties: the
\* program's History object does not keep the id of the entry it came from.
History(hid, k, type, msg) ==
    [hid |-> hid, k |-> k, history_type |-> type, gmail_id |-> msg.id,
     label_ids |-> msg.labelIds, modified_labels |-> msg.modified]

\* The stop marker update_worker tests with `is None`.
NoneItem == [hid |-> None, k |-> 0, history_type |-> "None", gmail_id |-> "",
             label_ids |-> {}, modified_labels |-> {}]

RECURSIVE YieldType(_, _, _, _)
YieldType(hid, type, msgs, k) ==
    IF msgs = <<>> THEN <<>>
    ELSE <<History(hid, k, type, Head(msgs))>>
         \o YieldType(hid, type, Tail(msgs), k + 1)

\* An __iter__ that decodes every entry with more than one field.
DecodeEntryTwoFields(e) ==
    IF Fields(e.entry) > 1
    THEN LET a == YieldType(e.id, "messageAdded", e.entry.ch["messageAdded"], 1)
             d == YieldType(e.id, "messageDeleted", e.entry.ch["messageDeleted"],
                            Len(a) + 1)
             la == YieldType(e.id, "labelAdded", e.entry.ch["labelAdded"],
                             Len(a) + Len(d) + 1)
             lr == YieldType(e.id, "labelRemoved", e.entry.ch["labelRemoved"],
                             Len(a) + Len(d) + Len(la) + 1)
         IN a \o d \o la \o lr
    ELSE <<>>

\* ListHistoryResponse.__iter__, the body run for one raw entry
DecodeEntry(e) ==
    IF Fields(e.entry) > 2
    THEN LET a == YieldType(e.id, "messageAdded", e.entry.ch["messageAdded"], 1)
             d == YieldType(e.id, "messageDeleted", e.entry.ch["messageDeleted"],
                            Len(a) + 1)
             la == YieldType(e.id, "labelAdded", e.entry.ch["labelAdded"],
                             Len(a) + Len(d) + 1)
             lr == YieldType(e.id, "labelRemoved", e.entry.ch["labelRemoved"],
                             Len(a) + Len(d) + Len(la) + 1)
         IN a \o d \o la \o lr
    ELSE <<>>

RECURSIVE DecodePage(_)
DecodePage(es) ==
    IF es = <<>> THEN <<>> ELSE DecodeEntry(Head(es)) \o DecodePage(Tail(es))


\* ------------------------------------------------------------------- state
VARIABLES
    save_state,       \* GmailClient.save_state
    workers,          \* GmailClient.workers
    handlers,         \* GmailClient.handlers: history type -> list of handlers
    labels_per_type,  \* _handlers_config["labels_per_type"]
    labels_config,    \* _handlers_config["labels"]
    added,            \* add_handler calls made so far
    pc,               \* where the thread that calls run() is
    history_id,       \* GmailClient._history_id
    persisted,        \* service.session_data["gmail"]["history_id"]
    stop_request,     \* GmailClient.stop_request
    error,            \* the exception in flight in run()
    updates_queue,    \* GmailClient.updates_queue
    respRest,         \* remote entries of the pages not yet requested
    pageRecs,         \* ListHistoryResponse: what is left to yield of the page
    sentinelsPut,     \* _handle_stop: iterations done of the loop that puts None
    wpc,              \* where each worker thread is
    wrec,             \* the History each worker is handling
    widx,             \* handle_update: index of the handler being tried
    log,              \* the remote mailbox's history, oldest first
    enqueued,         \* ids of the records put on the queue so far, in order
    fetchAll,         \* ids of every record of the fetch in progress, all pages
    called,           \* the callbacks invoked: <<record id, handler index>>
    notFound,         \* ids of the records whose message was not found
    dequeued,         \* ids of the records queue.get() returned, in order
    ex                \* one call of the wrapped HttpRequest.execute

vars == <<save_state, workers, handlers, labels_per_type, labels_config, added, pc,
          history_id, persisted, stop_request, error, updates_queue, respRest,
          pageRecs, sentinelsPut, wpc, wrec, widx, log, enqueued, fetchAll,
          called, notFound, dequeued, ex>>

cfgVars == <<save_state, workers, handlers, labels_per_type, labels_config, added>>
respVars == <<respRest, pageRecs, fetchAll>>
workerVars == <<wpc, wrec, widx, called, notFound, dequeued>>

Workers == 1..workers

Id(history) == <<history.hid, history.k>>

\* No call of the wrapped execute is in progress.
NoExecution == [copy |-> "none", x |-> 0, calls |-> <<>>, pcx |-> "idle",
                raised |-> "none"]

\* GmailClient.__init__; save_state and workers are the caller's choice, the
\* session file may hold the checkpoint an earlier run saved, and the mailbox
\* may have changed while the application was offline.
Init ==
    /\ save_state \in BOOLEAN
    /\ workers \in 1..NumWorkers
    /\ handlers = [t \in HistoryTypes |-> <<>>]
    /\ labels_per_type = [t \in HistoryTypes |-> Some(<<>>)]
    /\ labels_config = Some(<<>>)
    /\ added = 0
    /\ pc = "init"
    /\ history_id = None
    /\ persisted \in {None, Base - 1}
    /\ stop_request = FALSE
    /\ error = "none"
    /\ updates_queue = <<>>
    /\ respRest = <<>>
    /\ pageRecs = <<>>
    /\ sentinelsPut = 0
    /\ wpc = [w \in 1..NumWorkers |-> "unstarted"]
    /\ wrec = [w \in 1..NumWorkers |-> NoneItem]
    /\ widx = [w \in 1..NumWorkers |-> 0]
    /\ \E n \in 0..MaxOffline : \E es \in [1..n -> EntryMenu] :
           log = [i \in 1..n |-> [id |-> Base + i, entry |-> es[i]]]
    /\ enqueued = <<>>
    /\ fetchAll = {}
    /\ called = {}
    /\ notFound = {}
    /\ dequeued = <<>>
    /\ ex = NoExecution

\* ------------------------------------------------------------ remote mailbox
\* The mailbox's current historyId (users.getProfile, history.list).
RemoteHistoryId == Base + Len(log)

\* A change happens in the mailbox.
RemoteChange ==
    /\ Len(log) < MaxLog
    /\ \E e \in EntryMenu : log' = Append(log, [id |-> RemoteHistoryId + 1, entry |-> e])
    /\ UNCHANGED <<cfgVars, ex, pc, history_id, persisted, stop_request, error,
                   updates_queue, respVars, sentinelsPut, workerVars, enqueued>>

\* A change happens in the mailbox, of the wider choice.
RemoteChangeWide ==
    /\ Len(log) < MaxLog
    /\ \E e \in WideEntryMenu :
           log' = Append(log, [id |-> RemoteHistoryId + 1, entry |-> e])
    /\ UNCHANGED <<cfgVars, ex, pc, history_id, persisted, stop_request, error,
                   updates_queue, respVars, sentinelsPut, workerVars, enqueued>>

\* A change happens in the mailbox, of the entries that differ in shape.
RemoteChangeMixed ==
    /\ Len(log) < MaxLog
    /\ \E e \in MixedEntryMenu :
           log' = Append(log, [id |-> RemoteHistoryId + 1, entry |-> e])
    /\ UNCHANGED <<cfgVars, ex, pc, history_id, persisted, stop_request, error,
                   updates_queue, respVars, sentinelsPut, workerVars, enqueued>>

\* history.list: does the entry carry a change of a requested type on a
\* message that has the requested label?  An entry of a change of no
\* requested type is returned too, with its id and messages only.
Matches(e, types, label_id) ==
    \/ e.entry.keys = {}
    \/ \E t \in types : \E i \in 1..Len(e.entry.ch[t]) :
           label_id = "None" \/ label_id \in e.entry.ch[t][i].labelIds

RECURSIVE SelectEntries(_, _, _, _)
SelectEntries(es, start, types, label_id) ==
    IF es = <<>> THEN <<>>
    ELSE (IF Head(es).id > start /\ Matches(Head(es), types, label_id)
          THEN <<Head(es)>> ELSE <<>>)
         \o SelectEntries(Tail(es), start, types, label_id)

FirstN(s, n) == SubSeq(s, 1, IF Len(s) < n THEN Len(s) ELSE n)
DropN(s, n) == SubSeq(s, (IF Len(s) < n THEN Len(s) ELSE n) + 1, Len(s))

\* ------------------------------------------------------------- add_handler
\* add_handler putting the handler in front of the list: [handler] + list
RECURSIVE AddTypesFront(_, _, _)
AddTypesFront(types, h, hs) ==
    IF types = <<>> THEN hs
    ELSE AddTypesFront(Tail(types), h,
                       [hs EXCEPT ![Head(types)] = <<h>> \o @])

\* add_handler: self.handlers[history_type] = self.handlers.get(...) + [handler]
RECURSIVE AddTypes(_, _, _)
AddTypes(types, h, hs) ==
    IF types = <<>> THEN hs
    ELSE AddTypes(Tail(types), h,
                  [hs EXCEPT ![Head(types)] = Append(@, h)])

RECURSIVE AddTypeLabels(_, _, _)
AddTypeLabels(types, h, lpt) ==
    IF types = <<>> THEN lpt
    ELSE AddTypeLabels(Tail(types), h,
             [lpt EXCEPT ![Head(types)] = add_labels_to_handler_config(h.labels, @)])

\* GmailClient.add_handler, called before run()
add_handler(h) ==
    /\ pc = "init"
    /\ added < MaxHandlers
    /\ \A t \in HistoryTypes : h \notin Range(handlers[t])
    /\ handlers' = AddTypes(h.history_types, h, handlers)
    /\ labels_per_type' = AddTypeLabels(h.history_types, h, labels_per_type)
    /\ labels_config' = add_labels_to_handler_config(h.labels, labels_config)
    /\ added' = added + 1
    /\ UNCHANGED <<ex, save_state, workers, pc, history_id, persisted, stop_request,
                   error, updates_queue, respVars, sentinelsPut, workerVars, log,
                   enqueued>>

\* GmailClient.add_handler, called before run() with any handler, one that
\* is registered already included: add_handler does not look.
add_handler_again(h) ==
    /\ pc = "init"
    /\ added < MaxHandlers
    /\ handlers' = AddTypes(h.history_types, h, handlers)
    /\ labels_per_type' = AddTypeLabels(h.history_types, h, labels_per_type)
    /\ labels_config' = add_labels_to_handler_config(h.labels, labels_config)
    /\ added' = added + 1
    /\ UNCHANGED <<ex, save_state, workers, pc, history_id, persisted, stop_request,
                   error, updates_queue, respVars, sentinelsPut, workerVars, log,
                   enqueued>>

AddHandler == \E h \in HandlerMenu : add_handler(h)
AddHandlerMixed == \E h \in MixedHandlerMenu : add_handler_again(h)
AddHandlerWide == \E h \in WideHandlerMenu : add_handler(h)

\* A get_updates that asks for every type there is.
history_types_all == HistoryTypes

\* get_updates: history_types = list(self.handlers.keys())
history_types == {t \in HistoryTypes : handlers[t] # <<>>}

\* A get_updates that takes the first label whenever there is one.
label_id_first ==
    IF ~labels_config.isNone /\ Len(labels_config.list) >= 1
    THEN labels_config.list[1] ELSE "None"

\* get_updates: the label the API is asked to filter on
label_id ==
    IF ~labels_config.isNone /\ Len(labels_config.list) = 1
    THEN labels_config.list[1] ELSE "None"

\* GmailClient.history_id (the property): the profile's historyId when unset
HistoryIdProp == IF history_id = None THEN RemoteHistoryId ELSE history_id

\* get_updates: the arguments of self.get_history(...)
get_history_request ==
    [start_history_id |-> HistoryIdProp, label_id |-> label_id,
     history_types |-> history_types]

\* The thread that called run() is inside the loop of get_updates.
Polling == pc \in {"fetch", "iter", "check_stop", "sleep"}

\* ---------------------------------------------------------------- run()
\* GmailClient.run up to the call of get_updates: the worker threads start.
run ==
    /\ pc = "init"
    /\ pc' = "get_updates"
    /\ wpc' = [w \in 1..NumWorkers |-> IF w \in Workers THEN "get" ELSE wpc[w]]
    /\ UNCHANGED <<cfgVars, ex, history_id, persisted, stop_request, error,
                   updates_queue, respVars, sentinelsPut, wrec, widx, log,
                   enqueued, called, notFound, dequeued>>

\* A quit that does more than set the flag: it cuts the poll loop short.
quit_runs_shutdown ==
    /\ stop_request' = TRUE
    /\ pc' = IF Polling THEN "handle_stop" ELSE pc
    /\ UNCHANGED <<cfgVars, ex, history_id, persisted, error, updates_queue,
                   respVars, sentinelsPut, workerVars, log, enqueued>>

\* GmailClient.quit: a signal handler or any thread sets the stop request.
quit ==
    /\ stop_request' = TRUE
    /\ UNCHANGED <<cfgVars, ex, pc, history_id, persisted, error, updates_queue,
                   respVars, sentinelsPut, workerVars, log, enqueued>>

\* service.get_value("history_id") or self.history_id
LoadedHistoryId ==
    IF persisted # None /\ persisted # 0 THEN persisted ELSE HistoryIdProp

\* get_updates reading the saved checkpoint whether save_state is set or not.
get_updates_begin_always_loads ==
    /\ pc = "get_updates"
    /\ history_id' = LoadedHistoryId
    /\ pc' = IF history_types # {} THEN "fetch" ELSE "handle_stop"
    /\ UNCHANGED <<cfgVars, ex, persisted, stop_request, error, updates_queue,
                   respVars, sentinelsPut, workerVars, log, enqueued>>

\* get_updates before its loop: the checkpoint is loaded when save_state is
\* set, and the loop is not entered when no handler is registered.
get_updates_begin ==
    /\ pc = "get_updates"
    /\ history_id' = IF save_state THEN LoadedHistoryId ELSE history_id
    /\ pc' = IF history_types # {} THEN "fetch" ELSE "handle_stop"
    /\ UNCHANGED <<cfgVars, ex, persisted, stop_request, error, updates_queue,
                   respVars, sentinelsPut, workerVars, log, enqueued>>

\* get_updates: histories = self.get_history(...); self.history_id =
\* histories.history_id.  ListHistoryResponse.__init__ requests the first page.
fetch_ok ==
    /\ pc = "fetch"
    /\ LET req == get_history_request
           sel == SelectEntries(log, req.start_history_id, req.history_types,
                                req.label_id)
       IN /\ pageRecs' = DecodePage(FirstN(sel, PageSize))
          /\ respRest' = DropN(sel, PageSize)
          /\ fetchAll' = {Id(r) : r \in Range(DecodePage(sel))}
    /\ history_id' = RemoteHistoryId
    /\ pc' = "iter"
    /\ UNCHANGED <<cfgVars, ex, persisted, stop_request, error, updates_queue,
                   sentinelsPut, workerVars, log, enqueued>>

\* run() without its `finally`: the exception leaves run() at once.
fetch_raises_no_finally(kind) ==
    /\ pc = "fetch"
    /\ kind = "stale" => HistoryIdProp < RemoteHistoryId
    /\ history_id' = HistoryIdProp
    /\ error' = kind
    /\ pc' = "raised"
    /\ UNCHANGED <<cfgVars, ex, persisted, stop_request, updates_queue, respVars,
                   sentinelsPut, workerVars, log, enqueued>>

\* The first request raises: the remote rejects a start position that lies
\* behind the mailbox (HttpError 404), or any other error the transport does
\* not retry away.  Nothing in get_history / _get_history_data catches it.
fetch_raises(kind) ==
    /\ pc = "fetch"
    /\ kind = "stale" => HistoryIdProp < RemoteHistoryId
    /\ history_id' = HistoryIdProp
    /\ error' = kind
    /\ pc' = "handle_stop"
    /\ UNCHANGED <<cfgVars, ex, persisted, stop_request, updates_queue, respVars,
                   sentinelsPut, workerVars, log, enqueued>>

FetchRaises == \E kind \in {"stale", "fetch_error"} : fetch_raises(kind)

\* get_updates with the stop request tested inside the for loop: the records
\* not yet put are dropped when it is set.
put_history_breaks_on_stop ==
    /\ pc = "iter"
    /\ pageRecs # <<>>
    /\ IF stop_request
       THEN /\ pc' = "handle_stop"
            /\ UNCHANGED <<updates_queue, enqueued, pageRecs>>
       ELSE /\ updates_queue' = Append(updates_queue, Head(pageRecs))
            /\ enqueued' = Append(enqueued, Id(Head(pageRecs)))
            /\ pageRecs' = Tail(pageRecs)
            /\ UNCHANGED pc
    /\ UNCHANGED <<cfgVars, ex, history_id, persisted, stop_request, error,
                   respRest, fetchAll, sentinelsPut, workerVars, log>>

\* get_updates on a LifoQueue: the record put last is the first one got.
put_history_lifo ==
    /\ pc = "iter"
    /\ pageRecs # <<>>
    /\ updates_queue' = <<Head(pageRecs)>> \o updates_queue
    /\ enqueued' = Append(enqueued, Id(Head(pageRecs)))
    /\ pageRecs' = Tail(pageRecs)
    /\ UNCHANGED <<cfgVars, ex, pc, history_id, persisted, stop_request, error,
                   respRest, fetchAll, sentinelsPut, workerVars, log>>

\* get_updates: for history in histories: self.updates_queue.put(history)
put_history ==
    /\ pc = "iter"
    /\ pageRecs # <<>>
    /\ updates_queue' = Append(updates_queue, Head(pageRecs))
    /\ enqueued' = Append(enqueued, Id(Head(pageRecs)))
    /\ pageRecs' = Tail(pageRecs)
    /\ UNCHANGED <<cfgVars, ex, pc, history_id, persisted, stop_request, error,
                   respRest, fetchAll, sentinelsPut, workerVars, log>>

\* __iter__ on StopIteration with a next_page_token: _get_history_data()
next_page_ok ==
    /\ pc = "iter"
    /\ pageRecs = <<>>
    /\ respRest # <<>>
    /\ pageRecs' = DecodePage(FirstN(respRest, PageSize))
    /\ respRest' = DropN(respRest, PageSize)
    /\ UNCHANGED <<cfgVars, ex, pc, history_id, persisted, stop_request, error,
                   updates_queue, fetchAll, sentinelsPut, workerVars, log, enqueued>>

\* The request of a later page raises, out of the for loop of get_updates.
next_page_raises ==
    /\ pc = "iter"
    /\ pageRecs = <<>>
    /\ respRest # <<>>
    /\ error' = "fetch_error"
    /\ pc' = "handle_stop"
    /\ UNCHANGED <<cfgVars, ex, history_id, persisted, stop_request, updates_queue,
                   respVars, sentinelsPut, workerVars, log, enqueued>>

\* An __iter__ that ends with the first page, whatever the next_page_token.
iter_done_after_first_page ==
    /\ pc = "iter"
    /\ pageRecs = <<>>
    /\ pc' = "check_stop"
    /\ UNCHANGED <<cfgVars, ex, history_id, persisted, stop_request, error,
                   updates_queue, respVars, sentinelsPut, workerVars, log, enqueued>>

\* __iter__ on StopIteration without a next_page_token: the for loop ends.
iter_done ==
    /\ pc = "iter"
    /\ pageRecs = <<>>
    /\ respRest = <<>>
    /\ pc' = "check_stop"
    /\ UNCHANGED <<cfgVars, ex, history_id, persisted, stop_request, error,
                   updates_queue, respVars, sentinelsPut, workerVars, log, enqueued>>

\* get_updates with the test of the stop request dropped: break after one cycle.
check_stop_always_breaks ==
    /\ pc = "check_stop"
    /\ pc' = "handle_stop"
    /\ UNCHANGED <<cfgVars, ex, history_id, persisted, stop_request, error,
                   updates_queue, respVars, sentinelsPut, workerVars, log, enqueued>>

\* A get_updates whose loop never tests the stop flag.
check_stop_ignores_stop ==
    /\ pc = "check_stop"
    /\ pc' = "sleep"
    /\ UNCHANGED <<cfgVars, ex, history_id, persisted, stop_request, error,
                   updates_queue, respVars, sentinelsPut, workerVars, log, enqueued>>

\* get_updates: if self.stop_request.is_set(): break
check_stop ==
    /\ pc = "check_stop"
    /\ pc' = IF stop_request THEN "handle_stop" ELSE "sleep"
    /\ UNCHANGED <<cfgVars, ex, history_id, persisted, stop_request, error,
                   updates_queue, respVars, sentinelsPut, workerVars, log, enqueued>>

\* get_updates: time.sleep(self.update_interval), then the loop test
sleep ==
    /\ pc = "sleep"
    /\ pc' = "fetch"
    /\ UNCHANGED <<cfgVars, ex, history_id, persisted, stop_request, error,
                   updates_queue, respVars, sentinelsPut, workerVars, log, enqueued>>

\* ------------------------------------------------------------ _handle_stop
\* _handle_stop: the value handed to set_value
CheckpointToSave(hid) == hid - 1

\* GoogleService.set_value: the value is stored in session_data and the
\* session is saved.
set_value(value) == value

\* GoogleService.save_service_state is called by _handle_stop and defined in
\* no source file at hand: it persists the service state, which set_value has
\* stored already.
save_service_state(stored) == stored

\* _handle_stop with a loop that stops one short: for _ in range(self.workers - 1)
SentinelCountOneShort == workers - 1

\* _handle_stop: how many None the loop puts
SentinelCount == workers

\* _handle_stop without the clearing of the queue.
handle_stop_begin_keeps_queue ==
    /\ pc = "handle_stop"
    /\ IF ~save_state
       THEN UNCHANGED <<history_id, persisted>>
       ELSE /\ history_id' = HistoryIdProp
            /\ persisted' = IF HistoryIdProp # None
                            THEN save_service_state(
                                     set_value(CheckpointToSave(HistoryIdProp)))
                            ELSE persisted
    /\ UNCHANGED updates_queue
    /\ sentinelsPut' = 0
    /\ pc' = "stop_workers"
    /\ UNCHANGED <<cfgVars, ex, stop_request, error, respVars, workerVars, log, enqueued>>

\* _handle_stop up to its loop; run() calls it in `finally`.
handle_stop_begin ==
    /\ pc = "handle_stop"
    /\ IF ~save_state
       THEN /\ updates_queue' = <<>>
            /\ UNCHANGED <<history_id, persisted>>
       ELSE /\ history_id' = HistoryIdProp
            /\ persisted' = IF HistoryIdProp # None
                            THEN save_service_state(
                                     set_value(CheckpointToSave(HistoryIdProp)))
                            ELSE persisted
            /\ UNCHANGED updates_queue
    /\ sentinelsPut' = 0
    /\ pc' = "stop_workers"
    /\ UNCHANGED <<cfgVars, ex, stop_request, error, respVars, workerVars, log, enqueued>>

\* _handle_stop: for _ in range(self.workers): self.updates_queue.put(None)
put_sentinel ==
    /\ pc = "stop_workers"
    /\ sentinelsPut < SentinelCount
    /\ updates_queue' = Append(updates_queue, NoneItem)
    /\ sentinelsPut' = sentinelsPut + 1
    /\ UNCHANGED <<cfgVars, ex, pc, history_id, persisted, stop_request, error,
                   respVars, workerVars, log, enqueued>>

\* run(): _handle_stop has returned; the exception in flight, if any, goes on.
run_end ==
    /\ pc = "stop_workers"
    /\ sentinelsPut >= SentinelCount
    /\ pc' = IF error = "none" THEN "returned" ELSE "raised"
    /\ UNCHANGED <<cfgVars, ex, history_id, persisted, stop_request, error,
                   updates_queue, respVars, sentinelsPut, workerVars, log, enqueued>>

\* _handle_stop when the session file cannot be written: set_value calls
\* _save_session, whose open(self.session_file, "w") or json.dump raises.
\* _handle_stop catches nothing, so the statements after set_value, the loop
\* that puts the None included, are not run, and run() raises from its
\* finally clause.
handle_stop_raises ==
    /\ pc = "handle_stop"
    /\ save_state
    /\ HistoryIdProp # None
    /\ history_id' = HistoryIdProp
    /\ error' = "persist_error"
    /\ pc' = "raised"
    /\ UNCHANGED <<cfgVars, ex, persisted, stop_request, updates_queue, respVars,
                   sentinelsPut, workerVars, log, enqueued>>

\* ----------------------------------------------------------------- workers
\* A label test that asks the record for all the labels: all() for any().
PreFilteredAll(history) ==
    LET handle_labels == labels_per_type[history.history_type]
    IN Truthy(handle_labels)
       /\ ~(\A l \in Range(handle_labels.list) : l \in history.label_ids)

\* handle_update: the label test made before the message is downloaded
PreFiltered(history) ==
    LET handle_labels == labels_per_type[history.history_type]
    IN Truthy(handle_labels)
       /\ ~(\E l \in history.label_ids : l \in Range(handle_labels.list))

\* An update_worker without `if history is None: break`: the stop marker is
\* taken and the loop goes on.
worker_get_skips_none(w) ==
    /\ wpc[w] = "get"
    /\ updates_queue # <<>>
    /\ updates_queue' = Tail(updates_queue)
    /\ LET history == Head(updates_queue)
       IN IF history = NoneItem
          THEN UNCHANGED <<wpc, wrec, dequeued>>
          ELSE IF handlers[history.history_type] = <<>>
          THEN /\ wpc' = [wpc EXCEPT ![w] = "died"]
               /\ dequeued' = Append(dequeued, Id(history))
               /\ UNCHANGED wrec
          ELSE IF PreFiltered(history)
          THEN /\ dequeued' = Append(dequeued, Id(history))
               /\ UNCHANGED <<wpc, wrec>>
          ELSE /\ wpc' = [wpc EXCEPT ![w] = "resolve"]
               /\ wrec' = [wrec EXCEPT ![w] = history]
               /\ dequeued' = Append(dequeued, Id(history))
    /\ UNCHANGED <<cfgVars, ex, pc, history_id, persisted, stop_request, error,
                   respVars, sentinelsPut, widx, log, enqueued, called,
                   notFound>>

\* An update_worker that takes the newest item of the queue, not the oldest.
worker_get_takes_last(w) ==
    /\ wpc[w] = "get"
    /\ updates_queue # <<>>
    /\ updates_queue' = SubSeq(updates_queue, 1, Len(updates_queue) - 1)
    /\ LET history == updates_queue[Len(updates_queue)]
       IN IF history = NoneItem
          THEN /\ wpc' = [wpc EXCEPT ![w] = "exited"]
               /\ UNCHANGED <<wrec, dequeued>>
          ELSE IF handlers[history.history_type] = <<>>
          THEN /\ wpc' = [wpc EXCEPT ![w] = "died"]
               /\ dequeued' = Append(dequeued, Id(history))
               /\ UNCHANGED wrec
          ELSE IF PreFiltered(history)
          THEN /\ dequeued' = Append(dequeued, Id(history))
               /\ UNCHANGED <<wpc, wrec>>
          ELSE /\ wpc' = [wpc EXCEPT ![w] = "resolve"]
               /\ wrec' = [wrec EXCEPT ![w] = history]
               /\ dequeued' = Append(dequeued, Id(history))
    /\ UNCHANGED <<cfgVars, ex, pc, history_id, persisted, stop_request, error,
                   respVars, sentinelsPut, widx, log, enqueued, called,
                   notFound>>

\* update_worker: history = self.updates_queue.get(), the test for None, and
\* handle_update up to the download of the message.  labels_per_type has no
\* key for a type without handler: the KeyError ends the thread.
worker_get(w) ==
    /\ wpc[w] = "get"
    /\ updates_queue # <<>>
    /\ updates_queue' = Tail(updates_queue)
    /\ LET history == Head(updates_queue)
       IN IF history = NoneItem
          THEN /\ wpc' = [wpc EXCEPT ![w] = "exited"]
               /\ UNCHANGED <<wrec, dequeued>>
          ELSE IF handlers[history.history_type] = <<>>
          THEN /\ wpc' = [wpc EXCEPT ![w] = "died"]
               /\ dequeued' = Append(dequeued, Id(history))
               /\ UNCHANGED wrec
          ELSE IF PreFiltered(history)
          THEN /\ dequeued' = Append(dequeued, Id(history))
               /\ UNCHANGED <<wpc, wrec>>
          ELSE /\ wpc' = [wpc EXCEPT ![w] = "resolve"]
               /\ wrec' = [wrec EXCEPT ![w] = history]
               /\ dequeued' = Append(dequeued, Id(history))
    /\ UNCHANGED <<cfgVars, ex, pc, history_id, persisted, stop_request, error,
                   respVars, sentinelsPut, widx, log, enqueued, called,
                   notFound>>

\* handle_update without the test of the reason: every HttpError is re-raised.
worker_resolve_reraises(w, outcome) ==
    /\ wpc[w] = "resolve"
    /\ CASE outcome = "ok" ->
              /\ wpc' = [wpc EXCEPT ![w] = "dispatch"]
              /\ widx' = [widx EXCEPT ![w] = 1]
              /\ UNCHANGED <<wrec, notFound>>
         [] outcome = "not_found" ->
              /\ wpc' = [wpc EXCEPT ![w] = "died"]
              /\ wrec' = [wrec EXCEPT ![w] = NoneItem]
              /\ notFound' = notFound \cup {Id(wrec[w])}
              /\ UNCHANGED widx
         [] OTHER ->
              /\ wpc' = [wpc EXCEPT ![w] = "died"]
              /\ wrec' = [wrec EXCEPT ![w] = NoneItem]
              /\ UNCHANGED <<widx, notFound>>
    /\ UNCHANGED <<cfgVars, ex, pc, history_id, persisted, stop_request, error,
                   updates_queue, respVars, sentinelsPut, log, enqueued,
                   called, dequeued>>

\* handle_update: history.message downloads the message; the download
\* returns, raises "Requested entity was not found." or raises something else.
worker_resolve(w, outcome) ==
    /\ wpc[w] = "resolve"
    /\ CASE outcome = "ok" ->
              /\ wpc' = [wpc EXCEPT ![w] = "dispatch"]
              /\ widx' = [widx EXCEPT ![w] = 1]
              /\ UNCHANGED <<wrec, notFound>>
         [] outcome = "not_found" ->
              /\ wpc' = [wpc EXCEPT ![w] = "get"]
              /\ wrec' = [wrec EXCEPT ![w] = NoneItem]
              /\ notFound' = notFound \cup {Id(wrec[w])}
              /\ UNCHANGED widx
         [] OTHER ->
              /\ wpc' = [wpc EXCEPT ![w] = "died"]
              /\ wrec' = [wrec EXCEPT ![w] = NoneItem]
              /\ UNCHANGED <<widx, notFound>>
    /\ UNCHANGED <<cfgVars, ex, pc, history_id, persisted, stop_request, error,
                   updates_queue, respVars, sentinelsPut, log, enqueued,
                   called, dequeued>>

\* A callback's exception that reaches the poll loop: the worker sets the stop
\* request before it dies.
worker_dispatch_stops_all(w, raises) ==
    /\ wpc[w] = "dispatch"
    /\ LET hs == handlers[wrec[w].history_type]
           passes == Check(hs[widx[w]], wrec[w])
       IN /\ raises => passes
          /\ called' = IF passes
                       THEN called \cup {<<Id(wrec[w]), widx[w]>>}
                       ELSE called
          /\ stop_request' = (stop_request \/ raises)
          /\ IF raises
             THEN /\ wpc' = [wpc EXCEPT ![w] = "died"]
                  /\ wrec' = [wrec EXCEPT ![w] = NoneItem]
                  /\ widx' = [widx EXCEPT ![w] = 0]
             ELSE IF widx[w] < Len(hs)
             THEN /\ widx' = [widx EXCEPT ![w] = @ + 1]
                  /\ UNCHANGED <<wpc, wrec>>
             ELSE /\ wpc' = [wpc EXCEPT ![w] = "get"]
                  /\ wrec' = [wrec EXCEPT ![w] = NoneItem]
                  /\ widx' = [widx EXCEPT ![w] = 0]
    /\ UNCHANGED <<cfgVars, ex, pc, history_id, persisted, error,
                   updates_queue, respVars, sentinelsPut, log, enqueued, notFound,
                   dequeued>>

\* A check that uses the record up: it leaves the History without labels.
worker_dispatch_check_consumes(w, raises) ==
    /\ wpc[w] = "dispatch"
    /\ LET hs == handlers[wrec[w].history_type]
           passes == Check(hs[widx[w]], wrec[w])
       IN /\ raises => passes
          /\ called' = IF passes
                       THEN called \cup {<<Id(wrec[w]), widx[w]>>}
                       ELSE called
          /\ IF raises
             THEN /\ wpc' = [wpc EXCEPT ![w] = "died"]
                  /\ wrec' = [wrec EXCEPT ![w] = NoneItem]
                  /\ widx' = [widx EXCEPT ![w] = 0]
             ELSE IF widx[w] < Len(hs)
             THEN /\ widx' = [widx EXCEPT ![w] = @ + 1]
                  /\ wrec' = [wrec EXCEPT ![w].label_ids = {}]
                  /\ UNCHANGED wpc
             ELSE /\ wpc' = [wpc EXCEPT ![w] = "get"]
                  /\ wrec' = [wrec EXCEPT ![w] = NoneItem]
                  /\ widx' = [widx EXCEPT ![w] = 0]
    /\ UNCHANGED <<cfgVars, ex, pc, history_id, persisted, stop_request, error,
                   updates_queue, respVars, sentinelsPut, log, enqueued, notFound,
                   dequeued>>

\* handle_update: one turn of `for handler in handlers[history_type]`: the
\* check and, when it passes, the callback, which returns or raises.
worker_dispatch(w, raises) ==
    /\ wpc[w] = "dispatch"
    /\ LET hs == handlers[wrec[w].history_type]
           passes == Check(hs[widx[w]], wrec[w])
       IN /\ raises => passes
          /\ called' = IF passes
                       THEN called \cup {<<Id(wrec[w]), widx[w]>>}
                       ELSE called
          /\ IF raises
             THEN /\ wpc' = [wpc EXCEPT ![w] = "died"]
                  /\ wrec' = [wrec EXCEPT ![w] = NoneItem]
                  /\ widx' = [widx EXCEPT ![w] = 0]
             ELSE IF widx[w] < Len(hs)
             THEN /\ widx' = [widx EXCEPT ![w] = @ + 1]
                  /\ UNCHANGED <<wpc, wrec>>
             ELSE /\ wpc' = [wpc EXCEPT ![w] = "get"]
                  /\ wrec' = [wrec EXCEPT ![w] = NoneItem]
                  /\ widx' = [widx EXCEPT ![w] = 0]
    /\ UNCHANGED <<cfgVars, ex, pc, history_id, persisted, stop_request, error,
                   updates_queue, respVars, sentinelsPut, log, enqueued, notFound,
                   dequeued>>

WorkerGet == \E w \in Workers : worker_get(w)
WorkerResolve ==
    \E w \in Workers : \E outcome \in {"ok", "not_found", "error"} :
        worker_resolve(w, outcome)
WorkerDispatch == \E w \in Workers : \E raises \in BOOLEAN : worker_dispatch(w, raises)

MainNext ==
    \/ run
    \/ get_updates_begin
    \/ fetch_ok
    \/ FetchRaises
    \/ put_history
    \/ next_page_ok
    \/ next_page_raises
    \/ iter_done
    \/ check_stop
    \/ sleep
    \/ handle_stop_begin
    \/ put_sentinel
    \/ run_end

Next ==
    \/ AddHandler
    \/ MainNext
    \/ quit
    \/ RemoteChange
    \/ WorkerGet
    \/ WorkerResolve
    \/ WorkerDispatch

Spec == Init /\ [][Next]_vars

\* The same client with one worker and no save_state, the wider choice of
\* handlers, and a mailbox that starts without history and changes by the
\* wider choice of entries.
WideInit ==
    /\ Init
    /\ workers = 1
    /\ ~save_state
    /\ persisted = None
    /\ log = <<>>

WideNext ==
    \/ AddHandlerWide
    \/ MainNext
    \/ quit
    \/ RemoteChangeWide
    \/ WorkerGet
    \/ WorkerResolve
    \/ WorkerDispatch

WideSpec == WideInit /\ [][WideNext]_vars

\* The same client with one worker and no save_state, handlers that differ
\* in kind, registered in any order and more than once, and a mailbox that
\* starts without history and changes by entries that differ in shape.
MixedInit ==
    /\ Init
    /\ workers = 1
    /\ ~save_state
    /\ persisted = None
    /\ log = <<>>

MixedNext ==
    \/ AddHandlerMixed
    \/ MainNext
    \/ quit
    \/ RemoteChangeMixed
    \/ WorkerGet
    \/ WorkerResolve
    \/ WorkerDispatch

MixedSpec == MixedInit /\ [][MixedNext]_vars

\* ------------------------------------------------ the wrapped execute
\* service/utils.py _error_handling_decorator, of which the source holds two
\* copies: google_workspace/service/utils.py and pytogle/service/utils.py.
RetryLimit == 5      \* if x == 5: raise e

\* What one call of execute_fn does: it returns, or raises one of these.
CallOutcomes ==
    {"ok", "timeout", "HttpError: Bad Gateway", "HttpError: Not Found", "ValueError"}

\* errors = (BrokenPipeError, timeout, HttpError, ConnectionResetError)
InErrors(e) == e \in {"timeout", "HttpError: Bad Gateway", "HttpError: Not Found"}
IsHttpError(e) == e \in {"HttpError: Bad Gateway", "HttpError: Not Found"}
\* any(error_type in error_str for error_type in (...))
HasRetriedText(e) == e = "HttpError: Bad Gateway"

\* The branches of the except block that write 'handled: True' and go on.
Handled(e) == InErrors(e) /\ (~IsHttpError(e) \/ HasRetriedText(e))

\* google_workspace/service/utils.py, execute: one turn of `while True`.
\* `if x == 5: raise e` stands inside the except block, where e is bound.
execute(outcome) ==
    /\ ex.copy = "google_workspace"
    /\ ex.pcx = "try"
    /\ ex' = IF outcome = "ok"
             THEN [ex EXCEPT !.calls = Append(@, outcome), !.pcx = "returned"]
             ELSE IF ~Handled(outcome)
             THEN [ex EXCEPT !.calls = Append(@, outcome), !.x = @ + 1,
                             !.pcx = "raised", !.raised = outcome]
             ELSE IF ex.x + 1 = RetryLimit
             THEN [ex EXCEPT !.calls = Append(@, outcome), !.x = @ + 1,
                             !.pcx = "raised", !.raised = outcome]
             ELSE [ex EXCEPT !.calls = Append(@, outcome), !.x = @ + 1]
    /\ UNCHANGED <<cfgVars, pc, history_id, persisted, stop_request, error,
                   updates_queue, respVars, sentinelsPut, workerVars, log, enqueued>>

\* pytogle/service/utils.py, execute: one turn of `while True`.
\* `if x == 5: raise e` stands after the try statement: Python 3 has unbound
\* e at the end of the except block, so the raise is an UnboundLocalError.
execute_pytogle(outcome) ==
    /\ ex.copy = "pytogle"
    /\ ex.pcx = "try"
    /\ ex' = IF outcome = "ok"
             THEN [ex EXCEPT !.calls = Append(@, outcome), !.pcx = "returned"]
             ELSE IF ~Handled(outcome)
             THEN [ex EXCEPT !.calls = Append(@, outcome), !.x = @ + 1,
                             !.pcx = "raised", !.raised = outcome]
             ELSE IF ex.x + 1 = RetryLimit
             THEN [ex EXCEPT !.calls = Append(@, outcome), !.x = @ + 1,
                             !.pcx = "raised", !.raised = "UnboundLocalError"]
             ELSE [ex EXCEPT !.calls = Append(@, outcome), !.x = @ + 1]
    /\ UNCHANGED <<cfgVars, pc, history_id, persisted, stop_request, error,
                   updates_queue, respVars, sentinelsPut, workerVars, log, enqueued>>

Execute == \E outcome \in CallOutcomes : execute(outcome)
ExecutePytogle == \E outcome \in CallOutcomes : execute_pytogle(outcome)

\* A request is executed through the wrapper of either copy; the client is
\* as constructed and does not run.
RetryInit ==
    /\ save_state = FALSE
    /\ workers = 1
    /\ handlers = [t \in HistoryTypes |-> <<>>]
    /\ labels_per_type = [t \in HistoryTypes |-> Some(<<>>)]
    /\ labels_config = Some(<<>>)
    /\ added = 0
    /\ pc = "init"
    /\ history_id = None
    /\ persisted = None
    /\ stop_request = FALSE
    /\ error = "none"
    /\ updates_queue = <<>>
    /\ respRest = <<>>
    /\ pageRecs = <<>>
    /\ sentinelsPut = 0
    /\ wpc = [w \in 1..NumWorkers |-> "unstarted"]
    /\ wrec = [w \in 1..NumWorkers |-> NoneItem]
    /\ widx = [w \in 1..NumWorkers |-> 0]
    /\ log = <<>>
    /\ enqueued = <<>>
    /\ fetchAll = {}
    /\ called = {}
    /\ notFound = {}
    /\ dequeued = <<>>
    /\ \E copy \in {"google_workspace", "pytogle"} :
           ex = [NoExecution EXCEPT !.copy = copy, !.pcx = "try"]

RetryNext == Execute \/ ExecutePytogle

RetrySpec == RetryInit /\ [][RetryNext]_vars


\* ---------------------------------------------------------------- properties
Min(S) == CHOOSE x \in S : \A y \in S : x <= y
Last(s) == s[Len(s)]
Ended == pc \in {"returned", "raised"}
InShutdown == pc \in {"stop_workers", "returned", "raised"}
\* The _handle_stop step that persists the checkpoint.
PersistStep == pc = "handle_stop" /\ pc' = "stop_workers" /\ save_state
\* Positions of the records fetched and not yet handled: on the queue or in
\* the hands of a worker.
UnprocessedPositions ==
    ({updates_queue[i].hid : i \in 1..Len(updates_queue)}
        \cup {wrec[w].hid : w \in Workers}) \ {None}
SentinelsQueued ==
    Cardinality({i \in 1..Len(updates_queue) : updates_queue[i] = NoneItem})
ExitedWorkers == {w \in Workers : wpc[w] = "exited"}

\* C1 (as claimed): with save_state set, the checkpoint persisted at shutdown
\* is the lowest position among the records fetched and still unprocessed, or
\* the current checkpoint when there is none, minus one.
C1_PersistsLowestQueuedPosition ==
    [][PersistStep =>
          persisted' = (IF UnprocessedPositions = {} THEN HistoryIdProp
                        ELSE Min(UnprocessedPositions)) - 1]_vars

\* C2 (as claimed): with save_state set, when run() raises because a page of
\* a fetch failed, every record of that fetch that was never enqueued has a
\* position greater than the persisted checkpoint.
C2_NoLossWhenFetchFails ==
    (pc = "raised" /\ save_state /\ error = "fetch_error")
        => \A id \in fetchAll :
               id \notin Range(enqueued) => id[1] > persisted

\* C3 (as claimed): in a poll cycle every record the fetch returns is
\* enqueued before the checkpoint is advanced to the fetch's new position.
C3_EnqueueBeforeAdvance ==
    [][(Polling /\ Polling' /\ history_id' # history_id)
          => fetchAll' \subseteq Range(enqueued')]_vars

\* C4 (as claimed): when the remote rejects the start position of a fetch,
\* the poll loop goes on: run() neither shuts down nor raises because of it.
C4_StaleStartIsRecovered ==
    error = "stale" => Polling

WorkerNext(w) ==
    \/ worker_get(w)
    \/ \E outcome \in {"ok", "not_found", "error"} : worker_resolve(w, outcome)
    \/ \E raises \in BOOLEAN : worker_dispatch(w, raises)

FairSpec ==
    /\ Spec
    /\ WF_vars(MainNext)
    /\ \A w \in 1..NumWorkers : WF_vars(WorkerNext(w))

AllWorkersOut == \A w \in Workers : wpc[w] \in {"exited", "died"}

C9_WorkerErrorsAreIsolated ==
    [][\A w \in Workers :
          (wpc[w] # "died" /\ wpc'[w] = "died") =>
              /\ pc' = pc
              /\ error' = error
              /\ stop_request' = stop_request
              /\ history_id' = history_id
              /\ \A v \in Workers \ {w} : wpc'[v] = wpc[v] /\ wrec'[v] = wrec[v]]_vars

C9_Witness ==
    \E w, v \in Workers :
        /\ wpc[w] = "died"
        /\ wpc[v] = "dispatch"
        /\ pc = "iter"
        /\ pageRecs # <<>>
        /\ ~stop_request

\* C10: when the download of a record's message fails with not-found, no
\* callback is ever invoked for that record and the worker goes back to the
\* queue for the next record.
C10_NotFoundIsSkipped ==
    [][/\ \A c \in called' : c[1] \notin notFound'
       /\ \A w \in Workers :
             (wpc[w] = "resolve" /\ Id(wrec[w]) \in notFound' \ notFound) =>
                 wpc'[w] = "get" /\ called' = called]_vars

C10_Witness ==
    /\ workers = 1
    /\ \E i, j \in 1..Len(enqueued) :
          /\ i < j
          /\ enqueued[i] \in notFound
          /\ \E c \in called : c[1] = enqueued[j]

\* ------------------------------------------------------------------ ordering
\* Where a record stands in the order the poll loop enqueued the records.
Pos(id) == CHOOSE i \in 1..Len(enqueued) : enqueued[i] = id
CalledIds == {c[1] : c \in called}

\* C11: with a single worker, callbacks fire in the order the records were
\* enqueued: when a callback runs for a record, no callback has run yet for a
\* record enqueued after it.
C11_SingleWorkerCallbackOrder ==
    [][workers = 1 =>
          \A c \in called' \ called : \A b \in called : Pos(b[1]) <= Pos(c[1])]_vars

C11_Witness ==
    /\ workers = 1
    /\ Len(enqueued) >= 2
    /\ enqueued[1] \in CalledIds
    /\ enqueued[2] \in CalledIds
    /\ wpc[1] = "get"

\* C12: add_handler appends the handler to the list of each of its types, so
\* every list is in registration order; a worker dispatching a record tries
\* the handlers of its type from the first of the list on: the callbacks made
\* for the record so far are those of the passing handlers before the one
\* being tried.
C12_HandlersRunInRegistrationOrder ==
    [][/\ added' = added + 1 =>
             \E h \in HandlerMenu : \A t \in HistoryTypes :
                 handlers'[t] = IF t \in Range(h.history_types)
                                THEN Append(handlers[t], h) ELSE handlers[t]
       /\ \A w \in Workers : wpc'[w] = "dispatch" =>
             LET hs == handlers'[wrec'[w].history_type]
             IN \A j \in 1..Len(hs) :
                    <<Id(wrec'[w]), j>> \in called'
                        <=> (j < widx'[w] /\ Check(hs[j], wrec'[w]))]_vars

C12_Witness ==
    \E w \in Workers :
        /\ wpc[w] = "dispatch"
        /\ wrec[w].history_type = "messageAdded"
        /\ widx[w] = 2
        /\ <<Id(wrec[w]), 1>> \in called
        /\ Len(handlers["messageAdded"][1].history_types) = 4
        /\ Len(handlers["messageAdded"][2].history_types) = 1

\* Is the sequence of record ids in the order of the remote history: entries
\* by ascending id, the changes of one entry in the order they are decoded?
InLogOrder(ids) ==
    \A i, j \in 1..Len(ids) :
        i < j => \/ ids[i][1] < ids[j][1]
                 \/ ids[i][1] = ids[j][1] /\ ids[i][2] < ids[j][2]

\* C13: whatever the number of workers, the records are handed to the workers
\* in the order the poll loop enqueued them, none skipped, and that order is
\* the order of the remote history.
C13_DequeueOrderIsFetchOrder ==
    /\ Len(dequeued) <= Len(enqueued)
    /\ \A i \in 1..Len(dequeued) : dequeued[i] = enqueued[i]
    /\ InLogOrder(enqueued)
    /\ \A i \in 1..Len(enqueued) : \E n \in 1..Len(log) : log[n].id = enqueued[i][1]

\* Two workers: the records were handed out in order over two pages, and the
\* callback of the second ran while the first is still being downloaded.
C13_Witness ==
    /\ workers = 2
    /\ Len(dequeued) = 2
    /\ dequeued[1][1] < dequeued[2][1]
    /\ dequeued[2] \in CalledIds
    /\ \E w \in Workers : wpc[w] = "resolve" /\ Id(wrec[w]) = dequeued[1]

\* ------------------------------------------------------------------ shutdown
\* C14: a stop request does not cut a poll cycle short.  The stop flag is
\* examined at one place of the loop, reached only when every record of the
\* fetch, all pages, is on the queue; the loop is left without error only by
\* that examination; and the flag is never cleared, so the cycle of a fetch
\* started after the request ends in the examination that leaves the loop: no
\* second fetch is started after the request.
C14_StopNeverInterruptsACycle ==
    [][/\ (pc' = "check_stop" /\ pc # "check_stop") =>
             /\ pageRecs' = <<>> /\ respRest' = <<>>
             /\ fetchAll' \subseteq Range(enqueued')
       /\ (Polling /\ ~Polling' /\ error' = "none") =>
             pc = "check_stop" /\ stop_request
       /\ (pc = "check_stop" /\ stop_request /\ pc' # pc) => pc' = "handle_stop"
       /\ (pc = "sleep" /\ pc' # pc) => pc' = "fetch"
       /\ stop_request => stop_request']_vars

C14_Witness ==
    /\ pc = "handle_stop"
    /\ stop_request
    /\ error = "none"
    /\ Cardinality(fetchAll) >= 2
    /\ fetchAll \subseteq Range(enqueued)

\* Records put on the queue and never handed to a worker.
NeverDequeued == Range(enqueued) \ Range(dequeued)
QueueIds == {Id(updates_queue[i]) : i \in 1..Len(updates_queue)} \ {Id(NoneItem)}
HeldIds == {Id(wrec[w]) : w \in Workers} \ {Id(NoneItem)}
SentinelsLast ==
    \A i, j \in 1..Len(updates_queue) :
        (i < j /\ updates_queue[i] = NoneItem) => updates_queue[j] = NoneItem

\* C15: without save_state, _handle_stop empties the queue and the records
\* it held are never handed to a worker nor dispatched; with save_state the
\* queue is left as it is, the stop markers go behind the records, and a
\* worker exits only when every record put was handed to a worker.
C15_QueueAtShutdown ==
    [][/\ (pc = "handle_stop" /\ pc' = "stop_workers") =>
             updates_queue' = IF save_state THEN updates_queue ELSE <<>>
       /\ (InShutdown /\ ~save_state) =>
             /\ dequeued' = dequeued
             /\ QueueIds' = {}
             /\ \A id \in NeverDequeued' : id \notin CalledIds' \cup HeldIds'
       /\ SentinelsLast'
       /\ (save_state /\ ExitedWorkers' # {}) => NeverDequeued' = {}]_vars

C15_Witness ==
    /\ ~save_state
    /\ pc = "returned"
    /\ NeverDequeued # {}
    /\ CalledIds # {}
    /\ \A w \in Workers : wpc[w] = "exited"

\* C16: the persisted checkpoint is written by the _handle_stop step alone
\* and only with save_state; the checkpoint in memory changes only in steps
\* of the thread that polls, never in a worker's step; without save_state
\* the persisted value is not read when get_updates starts and never written.
C16_CheckpointWriters ==
    [][/\ persisted' # persisted =>
             pc = "handle_stop" /\ pc' = "stop_workers" /\ save_state
       /\ history_id' # history_id =>
             /\ pc \in {"get_updates", "fetch", "handle_stop"} /\ pc' # pc
             /\ wpc' = wpc /\ wrec' = wrec /\ widx' = widx
       /\ (~save_state /\ pc = "get_updates") => history_id' = history_id
       /\ ~save_state => persisted' = persisted]_vars

C16_Witness ==
    /\ ~save_state
    /\ persisted = Base - 1
    /\ pc = "returned"
    /\ enqueued # <<>>
    /\ history_id > Base

\* C17: a worker that takes a stop marker leaves its loop in that step:
\* nothing is downloaded, checked or called for the marker, the marker never
\* counts as a record, and a worker that has exited takes nothing more: each
\* marker taken ended one worker.
C17_SentinelIsNotData ==
    [][/\ \A w \in Workers : (wpc[w] = "get" /\ wpc'[w] = "exited") =>
             /\ Head(updates_queue) = NoneItem
             /\ updates_queue' = Tail(updates_queue)
             /\ called' = called /\ notFound' = notFound /\ dequeued' = dequeued
             /\ wrec' = wrec /\ widx' = widx
       /\ SentinelsQueued' < SentinelsQueued =>
             \E w \in Workers : wpc[w] = "get" /\ wpc'[w] = "exited"
       /\ \A w \in Workers : wpc[w] = "exited" =>
             wpc'[w] = "exited" /\ wrec'[w] = wrec[w] /\ widx'[w] = widx[w]
       /\ \A w \in Workers : wpc'[w] \in {"resolve", "dispatch"} => wrec'[w] # NoneItem
       /\ Id(NoneItem) \notin CalledIds' \cup notFound' \cup Range(dequeued')
       /\ Cardinality(ExitedWorkers') = sentinelsPut' - SentinelsQueued']_vars

C17_Witness ==
    \E w, v \in Workers :
        /\ wpc[w] = "exited"
        /\ wpc[v] = "dispatch"
        /\ SentinelsQueued = 1
        /\ Len(dequeued) = 2

\* ------------------------------------------------------------------ requests
\* The handlers registered, and for which types.
RegisteredHandlers == UNION {Range(handlers[t]) : t \in HistoryTypes}
TypesWithHandler ==
    {t \in HistoryTypes : \E h \in RegisteredHandlers : t \in Range(h.history_types)}
RequiredTags(h) == IF h.labels.isNone THEN {} ELSE Range(h.labels.list)

\* C18: a fetch asks for exactly the types that have a registered handler;
\* with no handler at all get_updates goes straight to _handle_stop and no
\* fetch is ever made.
C18_RequestsOnlyRegisteredTypes ==
    [][/\ pc' = "fetch" =>
             /\ get_history_request'.history_types = TypesWithHandler'
             /\ TypesWithHandler' # {}
       /\ (pc = "get_updates" /\ TypesWithHandler = {} /\ pc' # pc) =>
             pc' = "handle_stop"
       /\ TypesWithHandler' = {} => ~Polling' /\ enqueued' = <<>>]_vars

\* Only a MessageAddedHandler is registered; the mailbox's history holds a
\* labelsAdded entry the fetch went past without a record of it.
C18_Witness ==
    /\ TypesWithHandler = {"messageAdded"}
    /\ pc = "check_stop"
    /\ \E n \in 1..Len(log) :
          /\ log[n].entry.keys = {"labelsAdded"}
          /\ log[n].id <= history_id
          /\ persisted # None => log[n].id > persisted
    /\ enqueued # <<>>

\* C19: a label is passed to the fetch only when every registered handler
\* asks for exactly that one label.
C19_ServerSideLabelFilter ==
    (pc = "fetch" /\ get_history_request.label_id # "None") =>
        \A h \in RegisteredHandlers : RequiredTags(h) = {get_history_request.label_id}

C19_Witness ==
    /\ pc = "fetch"
    /\ get_history_request.label_id = "INBOX"
    /\ Cardinality(RegisteredHandlers) = 2
    /\ enqueued # <<>>

\* The tests check would make if none failed, in the order of its code.
AllTests(handler, history) ==
    (IF handler.labels.isNone THEN <<>> ELSE <<"labels">>)
    \o (IF handler.modified_labels.isNone \/ history.modified_labels = {}
        THEN <<>> ELSE <<"modified_labels">>)
    \o (IF handler.filters.isNone THEN <<>> ELSE handler.filters.list)

\* C20: a callback is invoked for a record only when every label of the
\* handler is among the record's labels and every filter of the handler holds
\* for it; check makes its tests in the order labels, then the filters as
\* listed, and stops at the first that fails, so no filter is evaluated when
\* the label test fails.
C20_CheckGatesTheCallback ==
    [][/\ \A c \in called' \ called : \E w \in Workers :
             /\ wpc[w] = "dispatch"
             /\ c = <<Id(wrec[w]), widx[w]>>
             /\ LET h == handlers[wrec[w].history_type][widx[w]]
                IN /\ RequiredTags(h) \subseteq wrec[w].label_ids
                   /\ ~h.filters.isNone =>
                         \A f \in Range(h.filters.list) : FilterHolds(f, wrec[w])
       /\ \A w \in Workers : wpc[w] = "dispatch" =>
             LET h == handlers[wrec[w].history_type][widx[w]]
                 tr == CheckTrace(h, wrec[w])
                 all == AllTests(h, wrec[w])
             IN /\ Len(tr) <= Len(all)
                /\ \A i \in 1..Len(tr) : tr[i].test = all[i]
                /\ \A i \in 1..(Len(tr) - 1) : tr[i].ok
                /\ Len(tr) < Len(all) => ~tr[Len(tr)].ok
                /\ (~h.labels.isNone /\ ~(RequiredTags(h) \subseteq wrec[w].label_ids))
                       => tr = <<[test |-> "labels", ok |-> FALSE]>>
                /\ Check(h, wrec[w]) = (\A i \in 1..Len(tr) : tr[i].ok)]_vars

\* The handler for INBOX, first in the list, was tried on a record labelled
\* SPAM and not called; the handler without labels came after it.
C20_Witness ==
    \E w \in Workers :
        /\ wpc[w] = "get"
        /\ Len(dequeued) >= 1
        /\ LET hs == handlers["messageAdded"]
           IN /\ Len(hs) = 2
              /\ hs[1].labels = Some(<<"INBOX">>)
              /\ hs[2].labels = NoneList
              /\ \E n \in 1..Len(log) :
                    /\ log[n].entry.ch["messageAdded"] = <<Msg({"SPAM"}, {})>>
                    /\ <<log[n].id, 1>> \in Range(dequeued)
                    /\ <<log[n].id, 1>> \notin notFound
                    /\ <<<<log[n].id, 1>>, 1>> \notin called
                    /\ wrec[w] = NoneItem

PersistFailInit == Init /\ save_state

PersistFailNext == Next \/ handle_stop_raises

PersistFailSpec == PersistFailInit /\ [][PersistFailNext]_vars

\* C26 (as claimed): however run() ends, by returning or by raising, and
\* also when writing the checkpoint raised, one stop marker per worker has
\* been put.
C26_SentinelsOnEveryExit == Ended => sentinelsPut = workers

\* C25 (as claimed): with save_state set and a checkpoint saved by an earlier
\* run, a run in which no fetch succeeded writes back at shutdown the value
\* it loaded.  No fetch succeeded exactly when history_id still holds the
\* loaded value: a fetch that succeeds stores the mailbox's position, which
\* is above every saved checkpoint.
C25_IdleRunKeepsCheckpoint ==
    [][(PersistStep /\ persisted # None /\ history_id = persisted)
          => persisted' = persisted]_vars

\* The last n elements of a sequence.
LastN(s, n) == SubSeq(s, Len(s) - n + 1, Len(s))

\* C29: a further page is requested only when the page at hand is used up
\* and the response before had a token; the iteration ends once a page is
\* used up and its response had none; by then the records of all pages were
\* put in the order of the pages; and the position the fetch reports is the
\* one of its first response, whatever happens while the pages are read.
C29_Pagination ==
    [][/\ (pc = "iter" /\ respRest' # respRest) =>
             pageRecs = <<>> /\ respRest # <<>> /\ pc' = "iter"
       /\ (pc = "iter" /\ pageRecs = <<>> /\ respRest = <<>> /\ pc' # pc) =>
             pc' = "check_stop"
       /\ (pc = "iter" /\ pc' = "check_stop") =>
             /\ pageRecs = <<>> /\ respRest = <<>>
             /\ Len(enqueued) >= Cardinality(fetchAll)
             /\ Range(LastN(enqueued, Cardinality(fetchAll))) = fetchAll
             /\ InLogOrder(LastN(enqueued, Cardinality(fetchAll)))
       /\ (pc = "fetch" /\ pc' = "iter") => history_id' = RemoteHistoryId
       /\ pc = "iter" => history_id' = history_id]_vars

C29_Witness ==
    /\ pc = "check_stop"
    /\ Cardinality(fetchAll) = 3
    /\ fetchAll \subseteq Range(enqueued)
    /\ history_id = RemoteHistoryId

\* ------------------------------------------------------ checks and decoding
\* C21 (as claimed): a handler that has modified_labels is called for a
\* labelAdded or labelRemoved record only if every one of its modified_labels
\* is among the labels the record modified, a record that modified no label
\* included.
C21_ModifiedLabelsGate ==
    [][\A w \in Workers :
          (/\ wpc[w] = "dispatch"
           /\ called' # called
           /\ wrec[w].history_type \in {"labelAdded", "labelRemoved"}
           /\ ~handlers[wrec[w].history_type][widx[w]].modified_labels.isNone)
          => \A l \in Range(handlers[wrec[w].history_type][widx[w]]
                                .modified_labels.list) :
                 l \in wrec[w].modified_labels]_vars

LogRecords ==
    UNION {Range(DecodeEntry(log[i])) : i \in 1..Len(log)}

\* C24: when a worker takes a record and drops it on the label test, before
\* the message is downloaded, no handler registered for the record's type
\* passes check on it.
C24_PreFilterIsSound ==
    [][(/\ dequeued' # dequeued
        /\ wpc' = wpc
        /\ handlers[Head(updates_queue).history_type] # <<>>)
          => \A i \in 1..Len(handlers[Head(updates_queue).history_type]) :
                 ~Check(handlers[Head(updates_queue).history_type][i],
                        Head(updates_queue))]_vars

C24_Witness ==
    /\ wpc[1] = "get"
    /\ dequeued # <<>>
    /\ \E r \in LogRecords :
           /\ Id(r) = Last(dequeued)
           /\ PreFiltered(r)
           /\ Len(handlers[r.history_type]) = 2
           /\ handlers[r.history_type][1] # handlers[r.history_type][2]

\* C27 (as claimed): a worker that takes a record whose type has no handler
\* calls nothing and stays in its loop, ready for the next record.
C27_UnhandledTypeIsIgnored ==
    [][\A w \in Workers :
          (/\ wpc[w] = "get"
           /\ dequeued' # dequeued
           /\ Head(updates_queue) # NoneItem
           /\ handlers[Head(updates_queue).history_type] = <<>>)
          => wpc'[w] = "get" /\ called' = called]_vars

\* How many records the lists of a raw entry hold before those of type
\* TypeOrder[n].
RECURSIVE Offset(_, _)
Offset(entry, n) ==
    IF n <= 1 THEN 0
    ELSE Offset(entry, n - 1) + Len(entry.ch[TypeOrder[n - 1]])

\* C28: an entry of the mailbox's history gives records only if it has more
\* than two fields; it then gives one record per change it lists, those of
\* messagesAdded first, then messagesDeleted, labelsAdded and labelsRemoved,
\* each of the type of its list and with the id of its message, which is not
\* empty; an entry of an id and messages gives none; and no record the poll
\* loop ever put came from an entry of two fields or fewer.
C28_DecodeEntry ==
    /\ \A i \in 1..Len(log) :
          LET e == log[i]
              recs == DecodeEntry(e)
          IN /\ recs # <<>> => Fields(e.entry) > 2
             /\ (e.entry.keys = {} /\ e.entry.messages) => recs = <<>>
             /\ Fields(e.entry) > 2 =>
                   /\ Len(recs) = Offset(e.entry, 5)
                   /\ \A n \in 1..4 : \A m \in 1..Len(e.entry.ch[TypeOrder[n]]) :
                          LET r == recs[Offset(e.entry, n) + m]
                          IN /\ r.history_type = TypeOrder[n]
                             /\ r.gmail_id = e.entry.ch[TypeOrder[n]][m].id
                             /\ r.gmail_id # ""
    /\ \A i \in 1..Len(updates_queue) :
          updates_queue[i] # NoneItem =>
             /\ updates_queue[i].history_type \in HistoryTypes
             /\ updates_queue[i].gmail_id # ""
             /\ updates_queue[i] \in LogRecords
    /\ \A id \in Range(enqueued) : Fields(log[id[1] - Base].entry) > 2
    /\ InLogOrder(enqueued)

C28_Witness ==
    /\ pc = "check_stop"
    /\ \E i, j \in 1..Len(log) :
           /\ log[i].entry.keys = {"messagesAdded", "labelsAdded"}
           /\ enqueued = <<<<log[i].id, 1>>, <<log[i].id, 2>>>>
           /\ Fields(log[j].entry) <= 2
           /\ log[j].entry.ch["messageAdded"] # <<>>
           /\ history_id >= log[j].id

\* ------------------------------------------------------------------ transport

\* C30 (as claimed): the wrapper calls the request at most RetryLimit times;
\* it returns on the first call that succeeds; an error that is not retried
\* is raised at once, and after the RetryLimit-th retried failure that
\* failure is what the caller gets.
C30_RetryIsBounded ==
    /\ Len(ex.calls) <= RetryLimit
    /\ \A i \in 1..(Len(ex.calls) - 1) : Handled(ex.calls[i])
    /\ ex.pcx = "try" =>
          Len(ex.calls) < RetryLimit /\ \A i \in 1..Len(ex.calls) : Handled(ex.calls[i])
    /\ ex.pcx = "returned" => Last(ex.calls) = "ok"
    /\ ex.pcx = "raised" =>
          /\ ex.raised = Last(ex.calls)
          /\ ~Handled(Last(ex.calls)) \/ Len(ex.calls) = RetryLimit

====
